---- MODULE Spec2Model ----
(***************************************************************************)
(* Football news novelty pipeline: hybrid retrieval (RRF fusion), LLM      *)
(* reranking and the novelty decision, driven by the batch loop of         *)
(* run_task2.                                                              *)
(*                                                                         *)
(* Numbers.  Every float of the program (rrf scores, relevances,           *)
(* confidences, thresholds) is a rational whose denominator divides Scale; *)
(* the model stores the exact integer value * Scale.                       *)
(* Optional fields (x | None) are sequences: <<>> is None, <<v>> is v.     *)
(***************************************************************************)
EXTENDS Integers, Sequences, FiniteSets, TLC

\* ------------------------------------------------------------------ bounds
\* Rows of the articles table when the batch starts.
MaxStored == 2
\* Incoming articles of the batch (text_list of incoming_news.json).
NumIncoming == 2
\* Rows of the articles table in the runs of Task 1.
MaxRows == 3

\* --------------------------------------------------------------- settings
top_k == 5
rrf_k == 60

\* lcm(20, 61, 62, 63, 64, 65): exact for 1/(rrf_k + rank), rank <= top_k,
\* and for the twentieths the thresholds and confidences are written in.
Scale == 64 * 5 * 31 * 63 * 13 * 61
Frac(n, d) == (Scale \div d) * n

reranker_relevance_threshold == Frac(1, 2)
novelty_confidence_threshold == Frac(3, 5)

None == <<>>
Some(v) == <<v>>

\* ------------------------------------------------------------ article store
ArticleIds == 1..MaxStored
ArticleText(id) == "stored article " \o ToString(id)

\* All sequences without repetition over the set S.
RECURSIVE Perms(_)
Perms(S) ==
    IF S = {} THEN {<<>>}
    ELSE UNION {{<<x>> \o p : p \in Perms(S \ {x})} : x \in S}

Min(a, b) == IF a <= b THEN a ELSE b

\* A result set of ids as the rows the repository returns; the store orders
\* by its own score, which therefore decreases along the list.
ArticleRecords(ids) ==
    [r \in 1..Len(ids) |->
        [id |-> ids[r], text |-> ArticleText(ids[r]), score |-> Len(ids) - r]]

\* How the store may rank its rows for one query: by distance, every row
\* (ORDER BY embedding <=> :embedding) ...
SemanticRankings(rows) == {ArticleRecords(p) : p \in Perms(rows)}

\* ... and by ts_rank, the rows that match the query (WHERE tsv @@ ...).
KeywordRankings(rows) ==
    {ArticleRecords(p) : p \in UNION {Perms(m) : m \in SUBSET rows}}

\* search_semantic / search_keyword on a store that ranks its rows as
\* `ranking` for the query: the first `limit` rows.  PostgreSQL refuses a
\* negative LIMIT, and the statement raises.
search_semantic(ranking, limit) ==
    IF limit < 0
    THEN [ok |-> FALSE, error |-> "LIMIT must not be negative"]
    ELSE [ok |-> TRUE, value |-> SubSeq(ranking, 1, Min(limit, Len(ranking)))]

search_keyword(ranking, limit) ==
    IF limit < 0
    THEN [ok |-> FALSE, error |-> "LIMIT must not be negative"]
    ELSE [ok |-> TRUE, value |-> SubSeq(ranking, 1, Min(limit, Len(ranking)))]

\* ------------------------------------------------------------- _fuse_rrf
\* Positions of id in a result list.
RanksOf(list, id) == {r \in 1..Len(list) : list[r].id = id}

RECURSIVE SumRR(_)
SumRR(ranks) ==
    IF ranks = {} THEN 0
    ELSE LET r == CHOOSE x \in ranks : TRUE
         IN  Scale \div (rrf_k + r) + SumRR(ranks \ {r})

\* Variant: the second loop assigns its contribution instead of adding it.
RrfScoreLastListWins(semantic, keyword, id) ==
    IF RanksOf(keyword, id) # {}
    THEN SumRR(RanksOf(keyword, id))
    ELSE SumRR(RanksOf(semantic, id))

\* scores[id] after both enumerate loops.
RrfScore(semantic, keyword, id) ==
    SumRR(RanksOf(semantic, id)) + SumRR(RanksOf(keyword, id))

\* Keys of the scores dict in insertion order.
RECURSIVE InsertionOrder(_, _)
InsertionOrder(list, seen) ==
    IF list = <<>> THEN seen
    ELSE InsertionOrder(Tail(list),
            IF \E n \in 1..Len(seen) : seen[n] = Head(list).id
            THEN seen ELSE Append(seen, Head(list).id))

Max(S) == CHOOSE x \in S : \A y \in S : y <= x
MinOf(S) == CHOOSE x \in S : \A y \in S : x <= y

\* Faulty variant of Meta: ranks counted from 0 (enumerate without start=1).
MetaZeroBased(semantic, keyword, id) ==
    LET sr == RanksOf(semantic, id)
        kr == RanksOf(keyword, id)
    IN  [text |-> IF sr # {} THEN semantic[MinOf(sr)].text
                  ELSE keyword[MinOf(kr)].text,
         semantic_rank  |-> IF sr = {} THEN None ELSE Some(Max(sr) - 1),
         semantic_score |-> IF sr = {} THEN None ELSE Some(semantic[Max(sr)].score),
         keyword_rank   |-> IF kr = {} THEN None ELSE Some(Max(kr) - 1),
         keyword_score  |-> IF kr = {} THEN None ELSE Some(keyword[Max(kr)].score)]

\* meta[id]: text from the first list that holds the id (setdefault), rank
\* and score from the last occurrence in each list (plain assignment).
Meta(semantic, keyword, id) ==
    LET sr == RanksOf(semantic, id)
        kr == RanksOf(keyword, id)
    IN  [text |-> IF sr # {} THEN semantic[MinOf(sr)].text
                  ELSE keyword[MinOf(kr)].text,
         semantic_rank  |-> IF sr = {} THEN None ELSE Some(Max(sr)),
         semantic_score |-> IF sr = {} THEN None ELSE Some(semantic[Max(sr)].score),
         keyword_rank   |-> IF kr = {} THEN None ELSE Some(Max(kr)),
         keyword_score  |-> IF kr = {} THEN None ELSE Some(keyword[Max(kr)].score)]

\* list.sort / sorted with reverse=True on pairs [key, val]: stable, so
\* equal keys keep the order they had.
RECURSIVE InsertDesc(_, _)
InsertDesc(sorted, x) ==
    IF sorted = <<>> THEN <<x>>
    ELSE IF Head(sorted).key >= x.key
         THEN <<Head(sorted)>> \o InsertDesc(Tail(sorted), x)
         ELSE <<x>> \o sorted

RECURSIVE SortDescFrom(_, _)
SortDescFrom(done, rest) ==
    IF rest = <<>> THEN done
    ELSE SortDescFrom(InsertDesc(done, Head(rest)), Tail(rest))

\* seq sorted by the keys given beside it: keys[n] is the sort key of seq[n].
SortDesc(seq, keys) ==
    LET keyed == [n \in 1..Len(seq) |-> [key |-> keys[n], val |-> seq[n]]]
        out == SortDescFrom(<<>>, keyed)
    IN  [n \in 1..Len(out) |-> out[n].val]

_fuse_rrf(semantic, keyword, limit) ==
    LET keys == InsertionOrder(semantic \o keyword, <<>>)
        score(id) == RrfScore(semantic, keyword, id)
        ordered == SortDesc(keys, [n \in 1..Len(keys) |-> score(keys[n])])
        \* [:top_k]; a negative top_k drops that many ids from the end
        sorted_ids == SubSeq(ordered, 1,
                             IF limit >= 0 THEN Min(limit, Len(ordered))
                             ELSE Len(ordered) + limit)
    IN  [n \in 1..Len(sorted_ids) |->
            LET did == sorted_ids[n]
                m == Meta(semantic, keyword, did)
            IN  [id |-> did,
                 text |-> m.text,
                 rrf_score |-> score(did),
                 semantic_rank |-> m.semantic_rank,
                 keyword_rank |-> m.keyword_rank,
                 semantic_score |-> m.semantic_score,
                 keyword_score |-> m.keyword_score]]

\* ---------------------------------------------------------- LLM interface
Return(v) == [ok |-> TRUE, value |-> v]
Raise(msg) == [ok |-> FALSE, error |-> msg]

\* dict.get with a default, for a parsed JSON object.
Get(obj, key, default) == IF key \in DOMAIN obj THEN obj[key] ELSE default

InUnit(x) == 0 <= x /\ x <= Scale

\* RerankerResponse.model_validate: relevance required, in [0, 1]; reason
\* defaults to "".
RerankerResponse(parsed) ==
    IF "relevance" \in DOMAIN parsed /\ InUnit(parsed.relevance)
    THEN Return([relevance |-> parsed.relevance,
                 reason |-> Get(parsed, "reason", "")])
    ELSE Raise("1 validation error for RerankerResponse")

\* Faulty variant of NoveltyResponse: decision typed as the Decision enum, so
\* that a reply of REVIEW validates.
NoveltyResponseAnyDecision(parsed) ==
    IF /\ "decision" \in DOMAIN parsed
       /\ parsed.decision \in {"PUBLISH", "SKIP", "REVIEW"}
       /\ "confidence" \in DOMAIN parsed
       /\ InUnit(parsed.confidence)
    THEN Return([decision |-> parsed.decision,
                 confidence |-> parsed.confidence,
                 reasoning |-> Get(parsed, "reasoning", ""),
                 new_information |-> Get(parsed, "new_information", <<>>),
                 status_change_detected |->
                     Get(parsed, "status_change_detected", FALSE)])
    ELSE Raise("1 validation error for NoveltyResponse")

\* NoveltyResponse.model_validate: decision required and PUBLISH or SKIP,
\* confidence required and in [0, 1]; the other fields have defaults.
NoveltyResponse(parsed) ==
    IF /\ "decision" \in DOMAIN parsed
       /\ parsed.decision \in {"PUBLISH", "SKIP"}
       /\ "confidence" \in DOMAIN parsed
       /\ InUnit(parsed.confidence)
    THEN Return([decision |-> parsed.decision,
                 confidence |-> parsed.confidence,
                 reasoning |-> Get(parsed, "reasoning", ""),
                 new_information |-> Get(parsed, "new_information", <<>>),
                 status_change_detected |->
                     Get(parsed, "status_change_detected", FALSE)])
    ELSE Raise("1 validation error for NoveltyResponse")

\* LLMClient.call_structured on the provider's reply: the request itself may
\* raise, the content may not be JSON, the JSON may violate the schema.
call_structured(reply, response_model) ==
    IF reply.kind = "error" THEN Raise(reply.message)
    ELSE IF reply.kind = "text"
         THEN Raise("LLM returned invalid JSON: " \o reply.message)
         ELSE IF response_model = "RerankerResponse"
              THEN RerankerResponse(reply.parsed)
              ELSE NoveltyResponse(reply.parsed)

\* What the provider may answer to a reranker prompt.
RerankReplies ==
    { [kind |-> "error", message |-> "Connection error."],
      [kind |-> "text", message |-> "Expecting value: line 1 column 1 (char 0)"],
      [kind |-> "json", parsed |-> [relevance |-> Frac(6, 5), reason |-> "same story"]],
      [kind |-> "json", parsed |-> [relevance |-> Frac(3, 10), reason |-> "different story"]],
      [kind |-> "json", parsed |-> [relevance |-> Frac(1, 2)]],
      [kind |-> "json", parsed |-> [relevance |-> Frac(4, 5), reason |-> "same story"]] }

\* What the provider may answer to the novelty prompt.
NoveltyReplies ==
    { [kind |-> "error", message |-> "Connection error."],
      [kind |-> "text", message |-> "Expecting value: line 1 column 1 (char 0)"],
      [kind |-> "json", parsed |-> [decision |-> "REVIEW", confidence |-> Frac(9, 10)]],
      [kind |-> "json", parsed |-> [decision |-> "SKIP", confidence |-> Frac(6, 5)]] }
    \cup
    { [kind |-> "json", parsed |-> [decision |-> d, confidence |-> c]] :
        d \in {"PUBLISH", "SKIP"}, c \in {Frac(2, 5), Frac(3, 5), Frac(9, 10)} }
    \cup
    { [kind |-> "json",
       parsed |-> [decision |-> d, confidence |-> c,
                   reasoning |-> "Fee now confirmed.",
                   new_information |-> <<"fee confirmed">>,
                   status_change_detected |-> TRUE]] :
        d \in {"PUBLISH", "SKIP"}, c \in {Frac(2, 5), Frac(3, 5), Frac(9, 10)} }

\* ---------------------------------------------------------------- reranker
\* RankedResult(...): relevance_score is validated to lie in [0, 1].
RankedResult(candidate, relevance_score, relevance_reason) ==
    IF InUnit(relevance_score)
    THEN Return([id |-> candidate.id,
                 text |-> candidate.text,
                 rrf_score |-> candidate.rrf_score,
                 relevance_score |-> relevance_score,
                 relevance_reason |-> relevance_reason,
                 semantic_rank |-> candidate.semantic_rank,
                 keyword_rank |-> candidate.keyword_rank])
    ELSE Raise("1 validation error for RankedResult")

\* Faulty variant of RerankOne: a candidate whose call raised is dropped.
RerankOneDropsOnError(ranked, candidate, response) ==
    LET kept == RankedResult(candidate, response.value.relevance,
                             response.value.reason)
    IN  IF response.ok
           /\ response.value.relevance >= reranker_relevance_threshold
           /\ kept.ok
        THEN Return(Append(ranked, kept.value))
        ELSE Return(ranked)

\* Faulty variant of RerankOne: the threshold is not applied.
RerankOneKeepsAll(ranked, candidate, response) ==
    LET kept == RankedResult(candidate, response.value.relevance,
                             response.value.reason)
        fallback == RankedResult(candidate, candidate.rrf_score,
                                 "reranker_fallback")
    IN  IF response.ok /\ kept.ok
        THEN Return(Append(ranked, kept.value))
        ELSE IF fallback.ok
             THEN Return(Append(ranked, fallback.value))
             ELSE Raise(fallback.error)

\* One iteration of rerank's loop over the candidates, `response` being the
\* outcome of its call_structured: the list `ranked` after it, or the
\* exception that leaves the except handler.
RerankOne(ranked, candidate, response) ==
    LET kept == RankedResult(candidate, response.value.relevance,
                             response.value.reason)
        fallback == RankedResult(candidate, candidate.rrf_score,
                                 "reranker_fallback")
    IN  IF response.ok /\ response.value.relevance < reranker_relevance_threshold
        THEN Return(ranked)
        ELSE IF response.ok /\ kept.ok
             THEN Return(Append(ranked, kept.value))
             ELSE IF fallback.ok
                  THEN Return(Append(ranked, fallback.value))
                  ELSE Raise(fallback.error)

\* Faulty variant of RerankSort: the list stays in the order of the loop.
RerankSortSkipped(ranked) == ranked

\* ranked.sort(key=lambda r: r.relevance_score, reverse=True)
RerankSort(ranked) ==
    SortDesc(ranked, [n \in 1..Len(ranked) |-> ranked[n].relevance_score])

\* ------------------------------------------------------- novelty detector
NoveltyResult(incoming_text, decision, confidence, reasoning) ==
    [incoming_text |-> incoming_text,
     decision |-> decision,
     confidence |-> confidence,
     reasoning |-> reasoning,
     new_information |-> <<>>,
     status_change_detected |-> FALSE,
     top_match_text |-> None,
     top_match_similarity |-> None,
     top_match_id |-> None,
     relevant_matches_count |-> 0]

\* Faulty variant of NoCandidatesResult: the other path's confidence.
NoCandidatesResultOtherConfidence(incoming_text) ==
    NoveltyResult(incoming_text, "PUBLISH", Frac(9, 10),
                  "No existing articles in the database.")

\* assess, candidates empty.
NoCandidatesResult(incoming_text) ==
    NoveltyResult(incoming_text, "PUBLISH", Frac(19, 20),
                  "No existing articles in the database.")

\* Faulty variant of NoRelevantResult: the other path's confidence.
NoRelevantResultOtherConfidence(incoming_text) ==
    NoveltyResult(incoming_text, "PUBLISH", Frac(19, 20),
                  "Retrieved articles are not about the same story. New topic.")

\* assess, reranker output empty.
NoRelevantResult(incoming_text) ==
    NoveltyResult(incoming_text, "PUBLISH", Frac(9, 10),
                  "Retrieved articles are not about the same story. New topic.")

\* The marker's dash is U+2014 in the source.
LowConfidenceMarker == "[LOW CONFIDENCE - FLAGGED FOR REVIEW] "

\* Faulty variant of GatedDecision: the model's verdict is never overridden.
GatedDecisionKeepsVerdict(response) == response.decision

\* Faulty variant of GatedDecision: a confidence equal to the threshold is
\* gated too.
GatedDecisionInclusive(response) ==
    IF response.confidence <= novelty_confidence_threshold
    THEN "REVIEW"
    ELSE response.decision

\* The low-confidence gate on a validated NoveltyResponse.
GatedDecision(response) ==
    IF response.confidence < novelty_confidence_threshold
    THEN "REVIEW"
    ELSE response.decision

GatedReasoning(response) ==
    IF response.confidence < novelty_confidence_threshold
    THEN LowConfidenceMarker \o response.reasoning
    ELSE response.reasoning

\* The result built in the try block from a validated NoveltyResponse.
Assessed(incoming_text, relevant_matches, response) ==
    LET top == relevant_matches[1]
    IN  [NoveltyResult(incoming_text, GatedDecision(response),
                       response.confidence, GatedReasoning(response))
         EXCEPT !.new_information = response.new_information,
                !.status_change_detected = response.status_change_detected,
                !.top_match_text = Some(top.text),
                !.top_match_similarity = Some(top.relevance_score),
                !.top_match_id = Some(top.id),
                !.relevant_matches_count = Len(relevant_matches)]

\* Faulty variant of AssessmentFailed: the cause is left out of the reasoning.
AssessmentFailedWithoutCause(incoming_text, relevant_matches, e) ==
    [NoveltyResult(incoming_text, "REVIEW", 0,
                   "Assessment failed. Flagged for manual review.")
     EXCEPT !.top_match_text =
                IF relevant_matches # <<>>
                THEN Some(relevant_matches[1].text) ELSE None,
            !.top_match_id =
                IF relevant_matches # <<>>
                THEN Some(relevant_matches[1].id) ELSE None,
            !.relevant_matches_count = Len(relevant_matches)]

\* The result built in the except block, e being str(exception).
AssessmentFailed(incoming_text, relevant_matches, e) ==
    [NoveltyResult(incoming_text, "REVIEW", 0,
                   "Assessment failed: " \o e \o ". Flagged for manual review.")
     EXCEPT !.top_match_text =
                IF relevant_matches # <<>>
                THEN Some(relevant_matches[1].text) ELSE None,
            !.top_match_id =
                IF relevant_matches # <<>>
                THEN Some(relevant_matches[1].id) ELSE None,
            !.relevant_matches_count = Len(relevant_matches)]

\* Faulty variant of _assess_novelty: a failed call lets the article through.
_assess_novelty_fail_open(incoming_text, relevant_matches, outcome) ==
    IF outcome.ok
    THEN Assessed(incoming_text, relevant_matches, outcome.value)
    ELSE [AssessmentFailed(incoming_text, relevant_matches, outcome.error)
          EXCEPT !.decision = "PUBLISH"]

\* _assess_novelty, `outcome` being the outcome of its call_structured.
_assess_novelty(incoming_text, relevant_matches, outcome) ==
    IF outcome.ok
    THEN Assessed(incoming_text, relevant_matches, outcome.value)
    ELSE AssessmentFailed(incoming_text, relevant_matches, outcome.error)

\* What the model keeps of a result once the loop is done with it: the
\* fields the summary counts read.
Handled(r) ==
    [incoming_text |-> r.incoming_text,
     decision |-> r.decision]

\* text_list of the incoming file.
text_list == [n \in 1..NumIncoming |-> "incoming article " \o ToString(n)]

\* ------------------------------------------------------------------ state
VARIABLES
    articles,    \* ids of the rows of the articles table
    decisions,   \* rows of the decisions table (text, decision)
    pc,          \* where run_task2 stands
    i,           \* enumerate(articles, 1): the article being handled
    candidates,  \* assess: what retrieve returned
    k,           \* rerank: candidates handled so far
    ranked,      \* rerank: its list `ranked`
    response,    \* _assess_novelty: the outcome of its structured call
    result,      \* run_task2: what assess returned, None before it returns
    results,     \* run_task2: its list `results` (text, decision)
    error,       \* the exception that ended the run, None if none
    calls,       \* collaborator calls made for the current article, in order
    index,       \* Task 1: how the store ranks its rows for the query
    retrieval,   \* Task 1: the latest call of retrieve, None before it
    returned,    \* Task 1: per requested top_k, what retrieve first returned
    csv,         \* ingestion: the CSV file at csv_path
    ingestion,   \* ingestion: the latest call of ingest_csv, None before it
    first_call,  \* ingestion: the first call of ingest_csv, None before it
    first_return \* ingestion: the first call that returned, None before it

task1_vars == <<index, retrieval, returned>>

ingest_vars == <<csv, ingestion, first_call, first_return>>

vars == <<articles, decisions, pc, i, candidates, k, ranked, response, result,
          results, error, calls, index, retrieval, returned,
          csv, ingestion, first_call, first_return>>

\* ----------------------------------------------------- HybridRetriever
\* Faulty variant of EffectiveTopK: the retriever remembers the top_k of its
\* previous call and uses it when the caller asks for none.
EffectiveTopKRemembered(requested) ==
    IF requested # None /\ requested[1] # 0 THEN requested[1]
    ELSE IF retrieval # None /\ retrieval[1].top_k \notin {None, Some(0)}
         THEN retrieval[1].top_k[1]
         ELSE top_k

\* top_k = top_k or settings.top_k
EffectiveTopK(requested) ==
    IF requested = None \/ requested[1] = 0 THEN top_k ELSE requested[1]

\* The collaborator call of one retrieve that raises, if any; "commit" is
\* the session's commit when the with block is left.
Faults == {"none", "embed", "search_semantic", "search_keyword", "commit"}

EmbedCall == [op |-> "embed"]
SemanticCall == [op |-> "search_semantic"]
KeywordCall == [op |-> "search_keyword"]

\* Faulty variant of retrieve: a failed embedding call is tried once more.
retrieveRetriesEmbedding(requested, fault, semantic_all, keyword_all) ==
    LET limit == EffectiveTopK(requested)
        semantic == IF fault = "search_semantic"
                    THEN Raise("semantic query failed")
                    ELSE search_semantic(semantic_all, limit)
        keyword == IF fault = "search_keyword"
                   THEN Raise("keyword query failed")
                   ELSE search_keyword(keyword_all, limit)
    IN  IF fault = "embed"
        THEN [calls |-> <<EmbedCall, EmbedCall>>,
              outcome |-> Raise("embedding request failed")]
        ELSE IF ~semantic.ok
        THEN [calls |-> <<EmbedCall, SemanticCall>>, outcome |-> semantic]
        ELSE IF ~keyword.ok
        THEN [calls |-> <<EmbedCall, SemanticCall, KeywordCall>>,
              outcome |-> keyword]
        ELSE IF fault = "commit"
        THEN [calls |-> <<EmbedCall, SemanticCall, KeywordCall>>,
              outcome |-> Raise("commit failed")]
        ELSE [calls |-> <<EmbedCall, SemanticCall, KeywordCall>>,
              outcome |-> Return(_fuse_rrf(semantic.value, keyword.value, limit)),
              semantic |-> semantic.value,
              keyword |-> keyword.value]

\* HybridRetriever.retrieve(query_text, requested) against a store that
\* ranks its rows as semantic_all and keyword_all for the query: the
\* collaborator calls it makes and what it returns or raises.
retrieve(requested, fault, semantic_all, keyword_all) ==
    LET limit == EffectiveTopK(requested)
        semantic == IF fault = "search_semantic"
                    THEN Raise("semantic query failed")
                    ELSE search_semantic(semantic_all, limit)
        keyword == IF fault = "search_keyword"
                   THEN Raise("keyword query failed")
                   ELSE search_keyword(keyword_all, limit)
    IN  IF fault = "embed"
        THEN [calls |-> <<EmbedCall>>,
              outcome |-> Raise("embedding request failed")]
        ELSE IF ~semantic.ok
        THEN [calls |-> <<EmbedCall, SemanticCall>>, outcome |-> semantic]
        ELSE IF ~keyword.ok
        THEN [calls |-> <<EmbedCall, SemanticCall, KeywordCall>>,
              outcome |-> keyword]
        ELSE IF fault = "commit"
        THEN [calls |-> <<EmbedCall, SemanticCall, KeywordCall>>,
              outcome |-> Raise("commit failed")]
        ELSE [calls |-> <<EmbedCall, SemanticCall, KeywordCall>>,
              outcome |-> Return(_fuse_rrf(semantic.value, keyword.value, limit)),
              semantic |-> semantic.value,
              keyword |-> keyword.value]

Init ==
    /\ articles \in {1..n : n \in 0..MaxStored}
    /\ decisions = <<>>
    /\ pc = "loop"
    /\ i = 0
    /\ candidates = <<>>
    /\ k = 0
    /\ ranked = <<>>
    /\ response = None
    /\ result = None
    /\ results = <<>>
    /\ error = None
    /\ calls = <<>>
    /\ index = None
    /\ retrieval = None
    /\ returned = <<>>
    /\ csv = None
    /\ ingestion = None
    /\ first_call = None
    /\ first_return = None

\* for i, text in enumerate(articles, 1): the next article.
NextArticle ==
    /\ pc = "loop"
    /\ i < Len(text_list)
    /\ i' = i + 1
    /\ pc' = "assess"
    /\ UNCHANGED <<articles, decisions, candidates, k, ranked, response, result,
                   results, error, calls>>
    /\ UNCHANGED <<task1_vars, ingest_vars>>

\* An exception nobody catches leaves assess and run_task2.
Propagate(message, made) ==
    /\ pc' = "raised"
    /\ error' = Some(message)
    /\ calls' = calls \o made
    /\ UNCHANGED <<articles, decisions, i, candidates, k, ranked, response,
                   result, results>>

\* assess, step 1: retrieve with the default top_k (embedding call, the two
\* store queries inside one session, fusion), then the empty-candidates
\* return.  Each incoming text is a query of its own to the store.
AssessRetrieve ==
    /\ pc = "assess"
    /\ \E fault \in Faults,
          semantic_all \in SemanticRankings(articles),
          keyword_all \in KeywordRankings(articles) :
        LET got == retrieve(None, fault, semantic_all, keyword_all)
            fused == got.outcome.value
        IN  IF ~got.outcome.ok
            THEN Propagate(got.outcome.error, got.calls)
            ELSE /\ candidates' = fused
                 /\ calls' = calls \o got.calls
                 /\ IF fused = <<>>
                    THEN /\ result' = Some(NoCandidatesResult(text_list[i]))
                         /\ pc' = "save"
                    ELSE /\ result' = result
                         /\ pc' = "rerank"
                 /\ UNCHANGED <<articles, decisions, i, k, ranked, response,
                                results, error>>
    /\ UNCHANGED <<task1_vars, ingest_vars>>

\* Faulty variant of NextCandidate: the list is walked from its end.
NextCandidateFromEnd(list, done) == list[Len(list) - done]

\* for candidate in candidates: the candidate of the pass after `done` passes.
NextCandidate(list, done) == list[done + 1]

\* assess, step 2: one pass of rerank's loop; after the last candidate the
\* sort, the return to assess and the empty-relevant return.
RerankCall ==
    /\ pc = "rerank"
    /\ k < Len(candidates)
    /\ \E reply \in RerankReplies :
        LET candidate == NextCandidate(candidates, k)
            scored == call_structured(reply, "RerankerResponse")
            made == <<[op |-> "rerank_llm", id |-> candidate.id,
                       ok |-> scored.ok]>>
            out == RerankOne(ranked, candidate, scored)
            relevant == RerankSort(out.value)
        IN  IF ~out.ok
            THEN Propagate(out.error, made)
            ELSE /\ calls' = calls \o made
                 /\ k' = k + 1
                 /\ IF k + 1 < Len(candidates)
                    THEN /\ ranked' = out.value
                         /\ pc' = pc
                         /\ result' = result
                    ELSE /\ ranked' = relevant
                         /\ IF relevant = <<>>
                            THEN /\ result' = Some(NoRelevantResult(text_list[i]))
                                 /\ pc' = "save"
                            ELSE /\ result' = result
                                 /\ pc' = "novelty"
                 /\ UNCHANGED <<articles, decisions, i, candidates, response,
                                results, error>>
    /\ UNCHANGED <<task1_vars, ingest_vars>>

\* assess, step 3: _assess_novelty on the relevant matches.
AssessNovelty ==
    /\ pc = "novelty"
    /\ \E reply \in NoveltyReplies :
        /\ response' = Some(call_structured(reply, "NoveltyResponse"))
        /\ result' = Some(_assess_novelty(text_list[i], ranked, response'[1]))
        /\ calls' = Append(calls, [op |-> "novelty_llm"])
        /\ pc' = "save"
        /\ UNCHANGED <<articles, decisions, i, candidates, k, ranked, results, error>>
    /\ UNCHANGED <<task1_vars, ingest_vars>>

\* results.append(result), then the decision is saved in its own session;
\* a failing INSERT or COMMIT is rolled back and raised.  The iteration is
\* over either way, and what it held of the article is dropped.
SaveDecision ==
    /\ pc = "save"
    /\ results' = Append(results, Handled(result[1]))
    /\ \/ /\ decisions' = Append(decisions, Handled(result[1]))
          /\ pc' = "loop"
          /\ error' = error
       \/ /\ decisions' = decisions
          /\ pc' = "raised"
          /\ error' = Some("decision insert failed")
    /\ candidates' = <<>>
    /\ k' = 0
    /\ ranked' = <<>>
    /\ response' = None
    /\ result' = None
    /\ calls' = <<>>
    /\ UNCHANGED <<articles, i>>
    /\ UNCHANGED <<task1_vars, ingest_vars>>

\* The loop is over: the summary is printed and the results are returned.
Finish ==
    /\ pc = "loop"
    /\ i = Len(text_list)
    /\ pc' = "done"
    /\ UNCHANGED <<articles, decisions, i, candidates, k, ranked, response, result,
                   results, error, calls>>
    /\ UNCHANGED <<task1_vars, ingest_vars>>

Next ==
    \/ NextArticle
    \/ AssessRetrieve
    \/ RerankCall
    \/ AssessNovelty
    \/ SaveDecision
    \/ Finish

Spec == Init /\ [][Next]_vars

\* ------------------------------------------------------------------ Task 1
\* The top_k a caller may ask for (--top-k is any int; None is the default).
RequestedTopK == {None, Some(-1), Some(0), Some(2)}

InitTask1 ==
    /\ articles \in {1..n : n \in 0..MaxRows}
    /\ index \in [semantic : SemanticRankings(articles),
                   keyword : KeywordRankings(articles)]
    /\ retrieval = None
    /\ returned = <<>>
    /\ pc = "task1"
    /\ error = None
    /\ decisions = <<>>
    /\ i = 0
    /\ candidates = <<>>
    /\ k = 0
    /\ ranked = <<>>
    /\ response = None
    /\ result = None
    /\ results = <<>>
    /\ calls = <<>>
    /\ csv = None
    /\ ingestion = None
    /\ first_call = None
    /\ first_return = None

\* get_top_k_similar: one call of retrieve for the query, with the top_k the
\* caller asks for, on the shared retriever.  An exception ends the run.
\* `repeat` records that an earlier call with this top_k has returned.
Retrieve ==
    /\ pc = "task1"
    /\ \E requested \in RequestedTopK, fault \in Faults :
        LET got == retrieve(requested, fault, index.semantic, index.keyword)
        IN  /\ retrieval' = Some([top_k |-> requested,
                                   repeat |-> requested \in DOMAIN returned] @@ got)
            /\ IF got.outcome.ok
               THEN /\ returned' =
                         IF requested \in DOMAIN returned
                         THEN returned
                         ELSE (requested :> got.outcome.value) @@ returned
                    /\ UNCHANGED <<pc, error>>
               ELSE /\ pc' = "raised"
                    /\ error' = Some(got.outcome.error)
                    /\ UNCHANGED returned
    /\ UNCHANGED <<articles, index, decisions, i, candidates, k, ranked, response,
                   result, results, calls>>
    /\ UNCHANGED ingest_vars

NextTask1 == Retrieve

Task1Spec == InitTask1 /\ [][NextTask1]_vars

\* ================================================================= claims
\* sub occurs in s.
Contains(s, sub) ==
    \E a \in 1..(Len(s) - Len(sub) + 1) : SubSeq(s, a, a + Len(sub) - 1) = sub

\* Positions in the call log of the reranker's LLM calls.
RerankCallsMade == {n \in 1..Len(calls) : calls[n].op = "rerank_llm"}
NoveltyCallsMade == {n \in 1..Len(calls) : calls[n].op = "novelty_llm"}

\* assess has returned a result built by _assess_novelty from a validated
\* response.
AssessedFromResponse ==
    /\ pc = "save"
    /\ ranked # <<>>
    /\ response # None
    /\ response[1].ok

\* C1: with a relevant match and a validated novelty response whose
\* confidence is below novelty_confidence_threshold, the decision is REVIEW
\* whatever the model chose, and the reasoning is the model's reasoning
\* behind the low-confidence marker.
C1_LowConfidenceIsReview ==
    (AssessedFromResponse
        /\ response[1].value.confidence < novelty_confidence_threshold)
    => /\ result[1].decision = "REVIEW"
       /\ result[1].reasoning = LowConfidenceMarker \o response[1].value.reasoning

C1_Witness ==
    /\ AssessedFromResponse
    /\ response[1].value.confidence = Frac(2, 5)
    /\ response[1].value.decision = "PUBLISH"
    /\ result[1].decision = "REVIEW"

\* C2: when the structured novelty call raises, _assess_novelty returns
\* (assess's caller goes on to save) a result with decision REVIEW,
\* confidence 0.0 and a reasoning that contains the exception's message.
C2_FailedCallIsReview ==
    (response # None /\ ~response[1].ok)
    => /\ pc = "save"
       /\ error = None
       /\ result # None
       /\ result[1].decision = "REVIEW"
       /\ result[1].confidence = 0
       /\ Contains(result[1].reasoning, response[1].error)

C2_Witness ==
    /\ response # None
    /\ ~response[1].ok
    /\ Contains(response[1].error, "invalid JSON")
    /\ result # None
    /\ result[1].decision = "REVIEW"

\* C3: no collaborator failure aborts the batch: no exception leaves
\* run_task2, and when the loop is over every article has a result.
C3_BatchSurvivesFailures ==
    /\ error = None
    /\ pc # "raised"
    /\ (pc = "done" => Len(results) = Len(text_list))

\* C4: every candidate whose relevance call raised is in the reranker's list
\* with relevance_score equal to its rrf_score and the sentinel reason, and
\* a raising call stops nothing: rerank returns only after one call per
\* candidate, and no exception leaves it.
C4_FailedCallFallsBack ==
    /\ \A n \in RerankCallsMade :
          ~calls[n].ok =>
             \E c \in 1..Len(candidates), m \in 1..Len(ranked) :
                /\ candidates[c].id = calls[n].id
                /\ ranked[m].id = calls[n].id
                /\ ranked[m].relevance_score = candidates[c].rrf_score
                /\ ranked[m].relevance_reason = "reranker_fallback"
    /\ (pc \in {"novelty", "save"} /\ candidates # <<>>)
          => Cardinality(RerankCallsMade) = Len(candidates)
    /\ (pc = "raised" => RerankCallsMade = {})

C4_Witness ==
    /\ pc = "novelty"
    /\ Len(ranked) = 2
    /\ \E n \in RerankCallsMade, m \in RerankCallsMade :
          n < m /\ ~calls[n].ok /\ calls[m].ok

\* C5: every entry of the reranker's list has relevance_score at or above
\* the relevance threshold, or is the fallback entry (sentinel reason) of a
\* candidate whose call raised.
C5_BelowThresholdOnlyFallback ==
    \A m \in 1..Len(ranked) :
       \/ ranked[m].relevance_score >= reranker_relevance_threshold
       \/ /\ ranked[m].relevance_reason = "reranker_fallback"
          /\ \E n \in RerankCallsMade :
                calls[n].id = ranked[m].id /\ ~calls[n].ok

C5_Witness ==
    /\ pc = "novelty"
    /\ \E n \in RerankCallsMade :
          /\ calls[n].ok
          /\ \A m \in 1..Len(ranked) : ranked[m].id # calls[n].id
    /\ \E m \in 1..Len(ranked) :
          ranked[m].relevance_score < reranker_relevance_threshold

\* C6: every result assess returns has a decision among PUBLISH, SKIP and
\* REVIEW and a reasoning that is not empty.
C6_DecisionAndReasoning ==
    result # None
    => /\ result[1].decision \in {"PUBLISH", "SKIP", "REVIEW"}
       /\ result[1].reasoning # ""

\* C7: when retrieve returns no candidate, assess returns PUBLISH with
\* confidence 0.95, the fixed reasoning, no top match and count 0, and
\* neither the reranker nor the novelty call was made.
C7_NoCandidatesPublish ==
    (pc = "save" /\ candidates = <<>>)
    => /\ result[1].decision = "PUBLISH"
       /\ result[1].confidence = Frac(19, 20)
       /\ result[1].reasoning = "No existing articles in the database."
       /\ result[1].top_match_id = None
       /\ result[1].top_match_text = None
       /\ result[1].top_match_similarity = None
       /\ result[1].relevant_matches_count = 0
       /\ RerankCallsMade = {}
       /\ NoveltyCallsMade = {}

C7_Witness ==
    /\ pc = "save"
    /\ candidates = <<>>
    /\ Len(calls) = 3
    /\ result[1].decision = "PUBLISH"

\* C8: when retrieve returns candidates and the reranker returns an empty
\* list, assess returns PUBLISH with confidence 0.90 and the fixed off-topic
\* reasoning, and the novelty call was not made.
C8_NoRelevantPublish ==
    (pc = "save" /\ candidates # <<>> /\ ranked = <<>>)
    => /\ result[1].decision = "PUBLISH"
       /\ result[1].confidence = Frac(9, 10)
       /\ result[1].reasoning =
             "Retrieved articles are not about the same story. New topic."
       /\ NoveltyCallsMade = {}
       /\ response = None

C8_Witness ==
    /\ pc = "save"
    /\ Len(candidates) = 2
    /\ ranked = <<>>
    /\ Cardinality(RerankCallsMade) = 2
    /\ result[1].decision = "PUBLISH"

\* C9: with a relevant match and a validated novelty response whose
\* confidence is at or above novelty_confidence_threshold, the decision,
\* the reasoning and the confidence of the result are the model's.
C9_ConfidentVerdictAdopted ==
    (AssessedFromResponse
        /\ response[1].value.confidence >= novelty_confidence_threshold)
    => /\ result[1].decision = response[1].value.decision
       /\ result[1].reasoning = response[1].value.reasoning
       /\ result[1].confidence = response[1].value.confidence

C9_Witness ==
    /\ AssessedFromResponse
    /\ response[1].value.confidence = novelty_confidence_threshold
    /\ response[1].value.decision = "SKIP"
    /\ result[1].decision = "SKIP"
    /\ result[1].reasoning = "Fee now confirmed."

\* C10: whenever a relevant match survived reranking, the result carries
\* the id, text and relevance_score of the first relevant match as
\* top_match_id, top_match_text and top_match_similarity, and their number
\* as relevant_matches_count.
C10_TopMatchAttached ==
    (pc = "save" /\ ranked # <<>>)
    => /\ result[1].top_match_id = Some(ranked[1].id)
       /\ result[1].top_match_text = Some(ranked[1].text)
       /\ result[1].top_match_similarity = Some(ranked[1].relevance_score)
       /\ result[1].relevant_matches_count = Len(ranked)

\* --------------------------------------------------------------- ingestion
\* The CSV files ingest_csv may find at csv_path: none, one without a text
\* column, or one whose text column has up to MaxRows cells, empty or not.
CsvFiles ==
    {[kind |-> "missing"], [kind |-> "no_text_column"]}
    \cup {[kind |-> "table", text |-> column] :
            column \in UNION {[1..n -> {None, Some("raw text")}] : n \in 0..MaxRows}}

\* df["text"].dropna().tolist()
RECURSIVE dropna(_)
dropna(column) ==
    IF column = <<>> THEN <<>>
    ELSE IF Head(column) = None THEN dropna(Tail(column))
         ELSE <<Head(column)[1]>> \o dropna(Tail(column))

\* The step of one ingest_csv that raises, if any.
IngestFaults == {"none", "count", "embed_batch", "insert", "commit"}

\* Faulty variant of AlreadyIngested: the table is never taken as filled.
AlreadyIngestedNever(existing) == FALSE

\* if existing > 0
AlreadyIngested(existing) == existing > 0

\* insert_batch: one INSERT per article, each row getting the next id.
insert_batch(rows, new) == 1..(Cardinality(rows) + Len(new))

\* IngestionPipeline.ingest_csv on the file `file` with the articles table
\* holding `rows`: the rows after the call, how many texts were embedded and
\* rows inserted, and what the call returns or raises.
ingest_csv(file, rows, fault) ==
    LET texts == dropna(file.text)
        existing == Cardinality(rows)
        untouched == [before |-> existing, rows |-> rows, embedded |-> None,
                      inserted |-> 0]
    IN  IF file.kind = "missing"
        THEN untouched @@ [outcome |-> Raise("CSV not found")]
        ELSE IF file.kind = "no_text_column"
        THEN untouched @@ [outcome |-> Raise("CSV must contain a 'text' column")]
        ELSE IF fault = "count"
        THEN untouched @@ [outcome |-> Raise("count query failed")]
        ELSE IF AlreadyIngested(existing)
        THEN IF fault = "commit"
             THEN untouched @@ [outcome |-> Raise("commit failed")]
             ELSE untouched @@ [outcome |-> Return(existing)]
        ELSE IF fault = "embed_batch"
        THEN untouched @@ [outcome |-> Raise("embedding request failed")]
        ELSE IF fault = "insert"
        THEN [before |-> existing, rows |-> rows, embedded |-> Some(Len(texts)),
              inserted |-> 0, outcome |-> Raise("insert failed")]
        ELSE IF fault = "commit"
        THEN [before |-> existing, rows |-> rows, embedded |-> Some(Len(texts)),
              inserted |-> 0, outcome |-> Raise("commit failed")]
        ELSE [before |-> existing, rows |-> insert_batch(rows, texts),
              embedded |-> Some(Len(texts)), inserted |-> Len(texts),
              outcome |-> Return(Len(texts))]

\* The database after init_schema, empty or filled by an earlier run, and
\* the file at csv_path.
InitIngest ==
    /\ articles \in {1..n : n \in 0..MaxRows}
    /\ csv \in CsvFiles
    /\ ingestion = None
    /\ first_call = None
    /\ first_return = None
    /\ pc = "ingest"
    /\ error = None
    /\ index = None
    /\ retrieval = None
    /\ returned = <<>>
    /\ decisions = <<>>
    /\ i = 0
    /\ candidates = <<>>
    /\ k = 0
    /\ ranked = <<>>
    /\ response = None
    /\ result = None
    /\ results = <<>>
    /\ calls = <<>>

\* main: IngestionPipeline().ingest_csv(csv_path), in this run of the program
\* or, the file being the same, in a later one.
IngestCsv ==
    /\ pc = "ingest"
    /\ \E fault \in IngestFaults :
        LET call == ingest_csv(csv, articles, fault)
        IN  /\ articles' = call.rows
            /\ ingestion' = Some(call)
            /\ first_call' = IF first_call = None THEN Some(call) ELSE first_call
            /\ first_return' = IF first_return = None /\ call.outcome.ok
                               THEN Some(call) ELSE first_return
            /\ error' = IF call.outcome.ok THEN None ELSE Some(call.outcome.error)
    /\ UNCHANGED <<csv, pc, decisions, i, candidates, k, ranked, response, result,
                   results, calls>>
    /\ UNCHANGED task1_vars

NextIngest == IngestCsv

IngestSpec == InitIngest /\ [][NextIngest]_vars

\* ------------------------------------------------------- claims, Task 1
\* The latest call of retrieve returned a list.
Retrieved == retrieval # None /\ retrieval[1].outcome.ok

SortedByRrfScore(list) ==
    \A n \in 1..(Len(list) - 1) : list[n].rrf_score >= list[n + 1].rrf_score

\* C11: whatever top_k the caller of retrieve asks for, the returned list is
\* sorted by rrf_score, largest first, and is no longer than the requested
\* top_k (the configured top_k when the caller asks for none).
C11_SortedWithinRequested ==
    Retrieved =>
        LET requested == retrieval[1].top_k
            fused == retrieval[1].outcome.value
        IN  /\ SortedByRrfScore(fused)
            /\ Len(fused) <= (IF requested = None THEN top_k ELSE requested[1])

\* What a list that holds the id at 1-based position p adds to the id's
\* score, 1/(60 + p), and nothing when the list does not hold the id.
Contribution(list, id) ==
    IF \E p \in 1..Len(list) : list[p].id = id
    THEN Frac(1, 60 + (CHOOSE p \in 1..Len(list) : list[p].id = id))
    ELSE 0

\* C12: the rrf_score of every fused id is the sum, over the two lists the
\* store returned, of 1/(60 + rank) for each list that holds the id.
C12_ScoreIsSumOfContributions ==
    Retrieved =>
        \A n \in 1..Len(retrieval[1].outcome.value) :
            LET entry == retrieval[1].outcome.value[n]
            IN  entry.rrf_score = Contribution(retrieval[1].semantic, entry.id)
                                + Contribution(retrieval[1].keyword, entry.id)

\* An id first in the semantic list and third in the keyword list scores
\* 1/61 + 1/63.
C12_Witness ==
    /\ Retrieved
    /\ \E n \in 1..Len(retrieval[1].outcome.value) :
        LET entry == retrieval[1].outcome.value[n]
        IN  /\ entry.semantic_rank = Some(1)
            /\ entry.keyword_rank = Some(3)
            /\ entry.rrf_score = Frac(1, 61) + Frac(1, 63)

C15_ExactlyOneOfEach ==
    retrieval # None =>
        /\ retrieval[1].calls = <<EmbedCall, SemanticCall, KeywordCall>>
        /\ ~retrieval[1].outcome.ok =>
              /\ error = Some(retrieval[1].outcome.error)
              /\ "value" \notin DOMAIN retrieval[1].outcome

\* The error each collaborator call of retrieve may raise.
ErrorsOf(call) ==
    IF call = EmbedCall THEN {"embedding request failed"}
    ELSE IF call = SemanticCall
    THEN {"semantic query failed", "LIMIT must not be negative"}
    ELSE {"keyword query failed", "LIMIT must not be negative", "commit failed"}

\* C15, amended: a call of retrieve makes the embedding call, the semantic
\* query and the keyword query in this order, each at most once; a call
\* that returns has made all three; when one of them raises, the calls
\* after it are not made, its error reaches the caller of retrieve and
\* nothing is returned.
C15_InOrderAtMostOnce ==
    retrieval # None =>
        LET made == retrieval[1].calls
            outcome == retrieval[1].outcome
        IN  /\ Len(made) \in 1..3
            /\ made = SubSeq(<<EmbedCall, SemanticCall, KeywordCall>>, 1, Len(made))
            /\ outcome.ok => Len(made) = 3
            /\ ~outcome.ok =>
                  /\ outcome.error \in ErrorsOf(made[Len(made)])
                  /\ error = Some(outcome.error)
                  /\ pc = "raised"
                  /\ "value" \notin DOMAIN outcome

\* The semantic query raised: no keyword query follows, and the caller of
\* retrieve gets the query's error.
C15_Witness ==
    /\ retrieval # None
    /\ retrieval[1].calls = <<EmbedCall, SemanticCall>>
    /\ ~retrieval[1].outcome.ok
    /\ error = Some("semantic query failed")

\* The rank an entry must carry for a list: the id's 1-based position in
\* the list, or none when the list does not hold the id.
RankIn(list, id) ==
    IF \E p \in 1..Len(list) : list[p].id = id
    THEN Some(CHOOSE p \in 1..Len(list) : list[p].id = id)
    ELSE None

\* C16: in the fused list no id occurs twice, every rrf_score is positive,
\* semantic_rank (keyword_rank) is the id's 1-based position in the semantic
\* (keyword) list when that list holds the id and absent otherwise, and no
\* entry lacks both ranks.
C16_FusedEntriesWellFormed ==
    Retrieved =>
        LET fused == retrieval[1].outcome.value
        IN  \A n \in 1..Len(fused) :
              /\ \A m \in 1..Len(fused) : fused[m].id = fused[n].id => m = n
              /\ fused[n].rrf_score > 0
              /\ fused[n].semantic_rank = RankIn(retrieval[1].semantic, fused[n].id)
              /\ fused[n].keyword_rank = RankIn(retrieval[1].keyword, fused[n].id)
              /\ fused[n].semantic_rank # None \/ fused[n].keyword_rank # None

\* A fused list with an entry found by both queries, at different ranks,
\* and an entry found by the semantic query only.
C16_Witness ==
    /\ Retrieved
    /\ \E n, m \in 1..Len(retrieval[1].outcome.value) :
        LET both == retrieval[1].outcome.value[n]
            one == retrieval[1].outcome.value[m]
        IN  /\ both.semantic_rank = Some(2)
            /\ both.keyword_rank = Some(1)
            /\ one.semantic_rank # None
            /\ one.keyword_rank = None

\* ------------------------------------------------------ claims, reranker
\* rerank has returned for the current article: `candidates` was its input,
\* `ranked` is its output.
Reranked == pc \in {"novelty", "save"} /\ candidates # <<>>

Occurrences(list, id) == Cardinality({n \in 1..Len(list) : list[n].id = id})

\* C13: what rerank returns is no longer than its input, holds only ids of
\* input candidates and none more often than the input does, and is sorted
\* by relevance_score, largest first, fallback entries included.
C13_RerankOutputShape ==
    Reranked =>
        /\ Len(ranked) <= Len(candidates)
        /\ \A n \in 1..Len(ranked) :
              /\ Occurrences(candidates, ranked[n].id) >= 1
              /\ Occurrences(ranked, ranked[n].id)
                     <= Occurrences(candidates, ranked[n].id)
        /\ \A n \in 1..(Len(ranked) - 1) :
              ranked[n].relevance_score >= ranked[n + 1].relevance_score

\* The second candidate, scored by the LLM, is returned ahead of the first,
\* whose call failed.
C13_Witness ==
    /\ Reranked
    /\ Len(ranked) = 2
    /\ ranked[1].id = candidates[2].id
    /\ ranked[2].id = candidates[1].id
    /\ ranked[2].relevance_reason = "reranker_fallback"
    /\ ranked[1].relevance_score > ranked[2].relevance_score

\* The reranker's LLM calls in a call log, in the order they were made.
RECURSIVE RerankCallLog(_)
RerankCallLog(log) ==
    IF log = <<>> THEN <<>>
    ELSE IF Head(log).op = "rerank_llm"
         THEN <<Head(log)>> \o RerankCallLog(Tail(log))
         ELSE RerankCallLog(Tail(log))

\* C17: rerank makes one LLM call per candidate, in the order of its input
\* and one at a time: the n-th call is for the n-th candidate, the calls
\* made so far are as many as the passes of the loop done, and when rerank
\* has returned they are as many as the candidates, however the calls ended.
C17_OneCallPerCandidateInOrder ==
    LET made == RerankCallLog(calls)
    IN  /\ Len(made) <= Len(candidates)
        /\ \A n \in 1..Len(made) : made[n].id = candidates[n].id
        /\ pc = "rerank" => Len(made) = k
        /\ Reranked => Len(made) = Len(candidates)

\* Two candidates: one call raised, the other scored below the threshold,
\* and there were two calls.
C17_Witness ==
    /\ Reranked
    /\ Len(candidates) = 2
    /\ candidates[1].id # candidates[2].id
    /\ Cardinality(RerankCallsMade) = 2
    /\ Len(ranked) = 1
    /\ ranked[1].relevance_reason = "reranker_fallback"
    /\ \E n \in RerankCallsMade : ~calls[n].ok
    /\ \E n \in RerankCallsMade : calls[n].ok

\* Every LLM call the reranker made for the current article raised.
AllRerankCallsFailed ==
    /\ RerankCallsMade # {}
    /\ \A n \in RerankCallsMade : ~calls[n].ok

\* C19: when every reranker call raises for an article with candidates,
\* rerank returns every candidate as a fallback entry, so assess does not
\* take the no-relevant-match PUBLISH return and makes the novelty call; and
\* when that call raises too, the result is REVIEW with confidence 0.0,
\* never PUBLISH or SKIP.
C19_OutageEndsInReview ==
    /\ (Reranked /\ AllRerankCallsFailed) =>
          /\ Len(ranked) = Len(candidates)
          /\ \A m \in 1..Len(ranked) :
                /\ ranked[m].relevance_reason = "reranker_fallback"
                /\ \E c \in 1..Len(candidates) :
                      /\ candidates[c].id = ranked[m].id
                      /\ candidates[c].rrf_score = ranked[m].relevance_score
          /\ pc = "save" => NoveltyCallsMade # {}
    /\ (pc = "save" /\ AllRerankCallsFailed /\ response # None /\ ~response[1].ok) =>
          /\ result[1].decision = "REVIEW"
          /\ result[1].decision \notin {"PUBLISH", "SKIP"}
          /\ result[1].confidence = 0
          /\ result[1].relevant_matches_count = Len(candidates)

\* Two candidates, both reranker calls and the novelty call raised, and
\* assess has returned.
C19_Witness ==
    /\ pc = "save"
    /\ Len(candidates) = 2
    /\ AllRerankCallsFailed
    /\ Cardinality(RerankCallsMade) = 2
    /\ response # None
    /\ ~response[1].ok
    /\ result[1].decision = "REVIEW"

IsFallback(entry) == entry.relevance_reason = "reranker_fallback"

\* C20, on the reranker's list: a fallback entry scores 2/61 at most, every
\* entry the LLM scored stands before every fallback entry, and the first
\* entry is a fallback entry only when all entries are.
FallbacksSortLast ==
    /\ \A m \in 1..Len(ranked) :
          IsFallback(ranked[m]) => ranked[m].relevance_score <= Frac(2, 61)
    /\ Reranked =>
          /\ \A m, n \in 1..Len(ranked) :
                (~IsFallback(ranked[m]) /\ IsFallback(ranked[n])) => m < n
          /\ (ranked # <<>> /\ IsFallback(ranked[1])) =>
                \A m \in 1..Len(ranked) : IsFallback(ranked[m])

\* C20: fallback entries sort after the entries the LLM scored, so the top
\* match of a result is a fallback entry only when every relevant match is
\* one, and top_match_similarity is the largest relevance_score among the
\* relevant matches.
C20_TopMatchIsBestScored ==
    /\ FallbacksSortLast
    /\ (pc = "save" /\ ranked # <<>>) =>
          /\ result[1].top_match_id = Some(ranked[1].id)
          /\ IsFallback(ranked[1]) => \A m \in 1..Len(ranked) : IsFallback(ranked[m])
          /\ result[1].top_match_similarity =
                Some(Max({ranked[m].relevance_score : m \in 1..Len(ranked)}))

\* C21: assess returns SKIP only when a relevant match survived reranking,
\* the novelty call returned, the model decided SKIP and its confidence is
\* at or above the confidence threshold; and it returns REVIEW only when the
\* novelty call was made and either raised or returned a confidence below
\* the threshold, never with an empty list from the retriever or reranker.
C21_SkipAndReviewProvenance ==
    (pc = "save" /\ result # None) =>
        /\ result[1].decision = "SKIP" =>
              /\ candidates # <<>>
              /\ ranked # <<>>
              /\ response # None
              /\ response[1].ok
              /\ response[1].value.decision = "SKIP"
              /\ response[1].value.confidence >= novelty_confidence_threshold
        /\ result[1].decision = "REVIEW" =>
              /\ candidates # <<>>
              /\ ranked # <<>>
              /\ response # None
              /\ \/ ~response[1].ok
                 \/ response[1].value.confidence < novelty_confidence_threshold

\* assess returns SKIP on a verdict whose confidence is exactly the
\* threshold, with two relevant matches of which the second is a fallback.
C21_Witness ==
    /\ pc = "save"
    /\ result # None
    /\ result[1].decision = "SKIP"
    /\ Len(ranked) = 2
    /\ ranked[2].relevance_reason = "reranker_fallback"
    /\ response[1].ok
    /\ response[1].value.confidence = novelty_confidence_threshold

\* ---------------------------------------------------- claims, ingestion
\* The latest call of ingest_csv found rows in the articles table.
FoundRows == ingestion # None /\ ingestion[1].before > 0 /\ csv.kind = "table"

\* C18, first part: a call of ingest_csv that finds the table non-empty
\* embeds nothing, inserts nothing, leaves the table as it was and, when it
\* returns, returns the number of rows it found.
SkipsWhenFilled ==
    FoundRows =>
        /\ ingestion[1].embedded = None
        /\ ingestion[1].inserted = 0
        /\ Cardinality(articles) = ingestion[1].before
        /\ ingestion[1].outcome.ok =>
              ingestion[1].outcome.value = ingestion[1].before

\* C18, as the specification words it: a call that finds rows skips, and
\* from an empty table on, after any number of calls on the same CSV the
\* table holds as many articles as the first call stored.
C18_StoredAsByFirstCall ==
    /\ SkipsWhenFilled
    /\ (first_call # None /\ first_call[1].before = 0) =>
          Cardinality(articles) = first_call[1].inserted

\* C18, amended: a call that finds rows skips, and once a call of
\* ingest_csv has returned, the table holds after any number of further
\* calls on the same CSV as many articles as it held when that call
\* returned, which is also what every further call returns.
C18_StoredAsByFirstReturn ==
    /\ SkipsWhenFilled
    /\ first_return # None =>
          /\ Cardinality(articles) = Cardinality(first_return[1].rows)
          /\ ingestion[1].outcome.ok =>
                ingestion[1].outcome.value = Cardinality(first_return[1].rows)

\* The first call raised and stored nothing, a later call stored two
\* articles or more, and the latest call found them and skipped.
C18_Witness ==
    /\ first_call # None
    /\ ~first_call[1].outcome.ok
    /\ first_return # None
    /\ first_return[1].inserted >= 2
    /\ FoundRows
    /\ ingestion[1].embedded = None
    /\ ingestion[1].outcome = Return(first_return[1].inserted)

====
